---------------------------- MODULE Spec2Model ----------------------------
(***************************************************************************)
(* A model of src/src/LayoutEngine.cpp: the ICU LayoutEngine API           *)
(* implemented on top of the HarfBuzz shaping engine.                      *)
(*                                                                         *)
(* Spec      : one LayoutEngine session driven by a single caller          *)
(*             (factories, constructor, layoutChars, reset, the            *)
(*             extraction accessors, destructor).                          *)
(* SpecFuncs : threads racing through icu_le_hb_get_font_funcs.            *)
(***************************************************************************)
EXTENDS Integers, Sequences, FiniteSets, TLC

(***************************************************************************)
(* Bounds of the model.                                                    *)
(***************************************************************************)
\* Length of the caller's character array (chars[0 .. MaxLen-1]).
MaxLen == 3
\* Number of characters past the end of the caller's array that an
\* over-long item run is followed through (the rest of the run is cut off).
MaxOverread == 1
\* Number of threads racing through icu_le_hb_get_font_funcs.
NThreads == 2
\* The small fixed-point values taken through the conversions are
\* -MaxFixed .. MaxFixed.
MaxFixed == 64
\* The code points looked up through the glyph callback are 0 .. MaxUnicode.
MaxUnicode == 40

(***************************************************************************)
(* le_int32 arithmetic.  Sums are computed without ever leaving the signed *)
(* 32-bit range, so that the wrapped result of the C expression and the    *)
(* true mathematical comparison can both be stated.                        *)
(***************************************************************************)
INT32_MAX == 2147483647
INT32_MIN == -INT32_MAX - 1

\* TRUE iff the mathematical sum a + b is above INT32_MAX (resp. below INT32_MIN).
OverflowsHigh(a, b) == b > 0 /\ a > INT32_MAX - b
OverflowsLow(a, b) == b < 0 /\ a < INT32_MIN - b

\* a + b reduced modulo 2^32 into the signed 32-bit range.
Add32(a, b) ==
    IF OverflowsHigh(a, b) THEN INT32_MIN + ((a - (INT32_MAX - b)) - 1)
    ELSE IF OverflowsLow(a, b) THEN INT32_MAX - (((INT32_MIN - b) - a) - 1)
    ELSE a + b

\* The mathematical comparisons a + b > c and a + b = c for 32-bit a, b, c.
TrueSumGreater(a, b, c) ==
    IF OverflowsHigh(a, b) THEN TRUE
    ELSE IF OverflowsLow(a, b) THEN FALSE
    ELSE a + b > c
TrueSumEquals(a, b, c) ==
    ~OverflowsHigh(a, b) /\ ~OverflowsLow(a, b) /\ a + b = c

(***************************************************************************)
(* LEErrorCode (LETypes.h): success codes are <= LE_NO_ERROR.              *)
(***************************************************************************)
LE_NO_ERROR == 0
LE_ILLEGAL_ARGUMENT_ERROR == 1
LE_MEMORY_ALLOCATION_ERROR == 7

LE_FAILURE(code) == code > LE_NO_ERROR
LE_SUCCESS(code) == code <= LE_NO_ERROR

StatusVals == {LE_NO_ERROR, LE_ILLEGAL_ARGUMENT_ERROR, LE_MEMORY_ALLOCATION_ERROR}

(***************************************************************************)
(* Single-precision floats.  A float is m * 2^e, kept as [m, e] with m odd *)
(* (or m = 0, e = 0) so that equal values are equal records.               *)
(***************************************************************************)
FloatSigBits == 24

Abs(n) == IF n < 0 THEN -n ELSE n

RECURSIVE Norm(_, _)
Norm(m, e) ==
    IF m = 0 THEN [m |-> 0, e |-> 0]
    ELSE IF m % 2 = 0 THEN Norm(m \div 2, e + 1)
    ELSE [m |-> m, e |-> e]

\* The power of two p with 2^(FloatSigBits-1) <= a / p < 2^FloatSigBits, for
\* a >= 2^FloatSigBits; 1 for smaller a.
RECURSIVE Ulp(_, _)
Ulp(a, p) == IF a \div p < 2^FloatSigBits THEN p ELSE Ulp(a, 2 * p)

\* n rounded to FloatSigBits significant bits, ties to even.
RoundSig(n) ==
    LET a == Abs(n)
        p == Ulp(a, 1)
        q == a \div p
        r == a % p
        up == (2 * r > p) \/ (2 * r = p /\ q % 2 = 1)
        v == (IF up THEN q + 1 ELSE q) * p
    IN  IF n < 0 THEN -v ELSE v

\* The distance from 2^31 within which a 32-bit integer rounds to 2^31 in
\* magnitude.
HalfTopUlp == 2^(30 - FloatSigBits)

\* Conversion of an integer to float (the values that round to 2^31 in
\* magnitude are given directly), and float addition.
FloatOfInt(n) ==
    IF n > INT32_MAX - HalfTopUlp THEN [m |-> 1, e |-> 31]
    ELSE IF n < -(INT32_MAX - HalfTopUlp) THEN [m |-> -1, e |-> 31]
    ELSE Norm(RoundSig(n), 0)
FAdd(a, b) ==
    LET e == IF a.e < b.e THEN a.e ELSE b.e
    IN  Norm(RoundSig(a.m * 2^(a.e - e) + b.m * 2^(b.e - e)), e)

\* scalblnf (f, n) = f * 2^n (no exponent overflow in the ranges modelled).
scalblnf(f, n) == IF f.m = 0 THEN f ELSE [m |-> f.m, e |-> f.e + n]

\* Conversion of a float to a 32-bit integer: truncation toward zero.
IntOfFloat(f) ==
    IF f.e >= 0 THEN f.m * 2^(f.e)
    ELSE IF f.m >= 0 THEN f.m \div 2^(-f.e)
    ELSE -((-f.m) \div 2^(-f.e))

to_float(v) == scalblnf(FloatOfInt(v), -8)

\* from_float without the multiplication by 256.
from_float_NoScale(f) == IntOfFloat(f)

from_float(f) == IntOfFloat(scalblnf(f, 8))

\* Whether f * 256 converts to hb_position_t (int32_t) with a defined result.
FitsInt32(f) ==
    LET g == scalblnf(f, 8)
    IN  \/ g.m = 0
        \/ g.e <= 0
        \/ (g.e < 31 /\ Abs(g.m) < 2^(31 - g.e))
        \/ (g.m = -1 /\ g.e = 31)

\* The values from_float (f) can return: the conversion of a float outside
\* the range of int32_t is undefined, and builds differ in what it gives.
from_float_outcomes(f) ==
    IF ~FitsInt32(f) THEN {INT32_MIN, INT32_MAX}
    ELSE IF scalblnf(f, 8).e = 31 THEN {INT32_MIN}
    ELSE {from_float(f)}

\* A float that is a multiple of 1/256, in units of 1/256.
Q8(f) == f.m * 2^(f.e + 8)

(***************************************************************************)
(* The font-metrics provider (LEFontInstance) of the session, and the      *)
(* callbacks through which the engine reaches it.                          *)
(***************************************************************************)
\* The two kinds of character of the caller's text: a base letter and a
\* character the engine decomposes, or ligates with a preceding base letter.
CharBase == 1
CharMark == 2
Chars == {CharBase, CharMark}

\* Glyph ids of the font: nominal (cmap) glyphs and substituted forms.
GlyphBase == 10
GlyphBaseInit == 11
GlyphLig == 12
GlyphMarkBase == 20
GlyphMark == 21

\* LEFontInstance::mapCharToGlyph: the font has a glyph for the base letter,
\* for the mark and for the odd code points above them; every other
\* character maps to glyph 0.
mapCharToGlyph(unicode) ==
    IF unicode = CharBase THEN GlyphBase
    ELSE IF unicode = CharMark THEN GlyphMarkBase
    ELSE IF unicode > CharMark /\ unicode % 2 = 1 THEN GlyphMark + unicode
    ELSE 0

\* LEFontInstance::getGlyphAdvance: advance.fX in device units (float).
getGlyphAdvanceX(glyph) ==
    IF glyph = GlyphMark THEN [m |-> 0, e |-> 0]
    ELSE IF glyph = GlyphLig THEN [m |-> 7, e |-> -1]
    ELSE [m |-> 1, e |-> 1]

\* icu_le_hb_font_get_glyph with the glyph id tested where the code tests the
\* output pointer.
icu_le_hb_font_get_glyph_TestsGlyphId(unicode, variation_selector) ==
    [glyph |-> mapCharToGlyph(unicode), ret |-> mapCharToGlyph(unicode) # 0]

\* icu_le_hb_font_get_glyph: *glyph = mapCharToGlyph (unicode); return !!glyph
\* (glyph is the non-null output pointer).
icu_le_hb_font_get_glyph(unicode, variation_selector) ==
    [glyph |-> mapCharToGlyph(unicode), ret |-> TRUE]

\* icu_le_hb_font_get_glyph_h_advance
icu_le_hb_font_get_glyph_h_advance(glyph) == from_float(getGlyphAdvanceX(glyph))

(***************************************************************************)
(* The engine's buffer.  info[i] = [codepoint, cluster], pos[i] =           *)
(* [x_advance, y_advance, x_offset, y_offset]; pre and post are the context *)
(* before and after the items.                                              *)
(***************************************************************************)
HB_DIRECTION_INVALID == "HB_DIRECTION_INVALID"
HB_DIRECTION_LTR == "HB_DIRECTION_LTR"
HB_DIRECTION_RTL == "HB_DIRECTION_RTL"
HB_BUFFER_FLAG_BOT == "BOT"
HB_BUFFER_FLAG_EOT == "EOT"
HB_SCRIPT_INVALID == "HB_SCRIPT_INVALID"

\* hb_buffer_create: a fresh buffer.
hb_buffer_create ==
    [direction |-> HB_DIRECTION_INVALID, flags |-> {}, script |-> HB_SCRIPT_INVALID,
     info |-> <<>>, pos |-> <<>>, pre |-> <<>>, post |-> <<>>]

\* hb_icu_script_to_script: UScriptCode to the engine's script tag.
hb_icu_script_to_script(scriptCode) ==
    IF scriptCode = "USCRIPT_ARABIC" THEN "Arab" ELSE "Latn"

hb_buffer_set_script(buf, script) == [buf EXCEPT !.script = script]
hb_buffer_set_direction(buf, dir) == [buf EXCEPT !.direction = dir]
hb_buffer_set_flags(buf, flags) == [buf EXCEPT !.flags = flags]
hb_buffer_get_length(buf) == Len(buf.info)

\* hb_buffer_set_length (buffer, 0): drops the records and both contexts.
hb_buffer_set_length0(buf) ==
    [buf EXCEPT !.info = <<>>, !.pos = <<>>, !.pre = <<>>, !.post = <<>>]

Min(a, b) == IF a < b THEN a ELSE b
Max(a, b) == IF a > b THEN a ELSE b

\* text[i] for the pointer text = arr + start: a character of the caller's
\* array, or whatever lies behind the array (junk) when i runs past its end.
TextAt(arr, start, i, junk) ==
    IF start + i < Len(arr) THEN arr[start + i + 1] ELSE junk

\* The number of characters the engine keeps of each context.
CONTEXT_LENGTH == 5

\* hb_buffer_add_utf16 (buffer, text, text_length, item_offset, item_length)
\* with text = arr + start.  Items get the cluster value i, their index
\* relative to text.  The item run is read for item_length characters
\* whatever text_length is; reading is followed MaxOverread characters past
\* the end of arr.  pre is the text before the items, nearest first.
hb_buffer_add_utf16(buf, arr, start, text_length, item_offset, item_length, junk) ==
    LET avail == Max(Len(arr) - (start + item_offset), 0)
        n == Min(item_length, avail + MaxOverread)
        items == [k \in 1..n |->
                    [codepoint |-> TextAt(arr, start, item_offset + (k - 1), junk),
                     cluster |-> item_offset + (k - 1)]]
        npre == Min(item_offset, CONTEXT_LENGTH)
        pre == IF Len(buf.info) = 0 /\ item_offset > 0
               THEN [k \in 1..npre |-> TextAt(arr, start, item_offset - k, junk)]
               ELSE buf.pre
        npost == IF OverflowsHigh(item_offset, item_length) THEN 0
                 ELSE Min(Max(text_length - (item_offset + item_length), 0),
                          CONTEXT_LENGTH)
        post == [k \in 1..npost |->
                    TextAt(arr, start, (item_offset + item_length) + (k - 1), junk)]
    IN  [buf EXCEPT !.info = buf.info \o items,
                    !.pos = <<>>,
                    !.pre = pre,
                    !.post = post]

(***************************************************************************)
(* The shaping engine (hb_shape), as far as the session observes it: it     *)
(* turns the items of the buffer into glyph records.  A base letter         *)
(* followed by a mark becomes one ligature glyph (many-to-one), a mark that *)
(* follows no base letter is decomposed into two glyphs of one cluster      *)
(* (one-to-many), a base letter that opens the text takes its initial form. *)
(* Nominal glyphs and advances are asked of the font through the callbacks. *)
(***************************************************************************)
GlyphRecord(glyph, cluster) ==
    [codepoint |-> glyph, cluster |-> cluster,
     x_advance |-> icu_le_hb_font_get_glyph_h_advance(glyph),
     y_advance |-> IF glyph = GlyphLig THEN -64 ELSE 0,
     x_offset |-> IF glyph = GlyphMark THEN -128 ELSE 0,
     y_offset |-> IF glyph = GlyphMark THEN 192 ELSE 0]

RECURSIVE ShapeItems(_, _)
ShapeItems(items, atStart) ==
    IF items = <<>> THEN <<>>
    ELSE LET it == Head(items)
             nominal == icu_le_hb_font_get_glyph(it.codepoint, 0).glyph
         IN  IF it.codepoint = CharBase /\ Len(items) >= 2
                  /\ items[2].codepoint = CharMark
             THEN <<GlyphRecord(GlyphLig, it.cluster)>>
                    \o ShapeItems(SubSeq(items, 3, Len(items)), FALSE)
             ELSE IF it.codepoint = CharMark
             THEN <<GlyphRecord(nominal, it.cluster), GlyphRecord(GlyphMark, it.cluster)>>
                    \o ShapeItems(Tail(items), FALSE)
             ELSE <<GlyphRecord(IF atStart THEN GlyphBaseInit ELSE nominal, it.cluster)>>
                    \o ShapeItems(Tail(items), FALSE)

Reverse(s) == [i \in 1..Len(s) |-> s[Len(s) + 1 - i]]

\* hb_shape (font, buffer, NULL, 0)
hb_shape(buf) ==
    LET logical == ShapeItems(buf.info, HB_BUFFER_FLAG_BOT \in buf.flags /\ buf.pre = <<>>)
        glyphs == IF buf.direction = HB_DIRECTION_RTL THEN Reverse(logical) ELSE logical
    IN  [buf EXCEPT
           !.info = [i \in 1..Len(glyphs) |->
                       [codepoint |-> glyphs[i].codepoint, cluster |-> glyphs[i].cluster]],
           !.pos = [i \in 1..Len(glyphs) |->
                       [x_advance |-> glyphs[i].x_advance, y_advance |-> glyphs[i].y_advance,
                        x_offset |-> glyphs[i].x_offset, y_offset |-> glyphs[i].y_offset]]]

(***************************************************************************)
(* The session: one LayoutEngine object and the engine objects it holds.    *)
(***************************************************************************)
VARIABLES
    phase,       \* "none": no object; "live": constructed; "failed": an object
                 \* whose constructor reported a failure
    fHbFont,     \* "NULL", "empty" (hb_font_get_empty ()) or "real"
    fHbBuffer,   \* "NULL", "empty" (hb_buffer_get_empty ()) or "real"
    fTypoFlags,
    x, y,        \* this->x, this->y: the pen origin
    buffer,      \* the contents of the engine buffer behind fHbBuffer
    font,        \* the bindings of the engine font behind fHbFont
    acquired,    \* the real engine handles the latest constructor run created
    released,    \* the real handles destroyed since then, in order
    shaped,      \* the arguments of the latest accepted layoutChars since
                 \* construction or reset
    last,        \* the latest call: status in and out, return value and what
                 \* it wrote to the caller's outputs
    probe,       \* SpecArgs: one layoutChars call, its arguments and outcome
    conv,        \* SpecFloat: one fixed-point value taken through to_float and
                 \* from_float
    cb,          \* SpecGlyph: one call of icu_le_hb_font_get_glyph
    twin,        \* SpecTwins: a second session, constructed with other typoFlags
    fresh,       \* SpecFresh: the latest accepted call as a newly constructed
                 \* session answers it, and what preceded it in this session
    ffuncs,      \* icu_le_hb_get_font_funcs: the static table pointer (0 = NULL)
    pc, f, ret,  \* per thread: position, local f, returned pointer
    created,     \* tables made by hb_font_funcs_create so far
    destroyed,   \* tables given to hb_font_funcs_destroy
    installs     \* the tables assigned to ffuncs, in order

sessionVars == <<phase, fHbFont, fHbBuffer, fTypoFlags, x, y, buffer, font,
                 acquired, released, shaped, last>>
funcsVars == <<ffuncs, pc, f, ret, created, destroyed, installs>>
auxVars == <<probe, conv, cb, twin, fresh>>
vars == <<sessionVars, funcsVars, auxVars>>

F0 == [m |-> 0, e |-> 0]

\* Pen origins a caller passes: (0, 0) and (1.5, -0.5).
PenPairs == {<<F0, F0>>, <<[m |-> 3, e |-> -1], [m |-> -1, e |-> -1]>>}
\* What the uninitialised members x and y may hold after construction.
GarbagePairs == PenPairs

\* The caller's array, of MaxLen characters: base letters and marks in turn.
Texts == {[i \in 1..MaxLen |-> IF i % 2 = 1 THEN CharBase ELSE CharMark]}

OffsetVals == -1..(MaxLen - 1)
CountVals == (-1..MaxLen) \cup {INT32_MAX}
MaxVals == -1..MaxLen
ScriptCodes == {"USCRIPT_ARABIC"}
TypoFlagVals == {3}
IndexBases == {0, 1}
ExtraBitsVals == {0, 65537}
GlyphIndexVals == -1..(MaxLen + 1)

\* The provider's pixels-per-em and scale factors (floats).
getXPixelsPerEm == [m |-> 3, e |-> 2]
getYPixelsPerEm == [m |-> 3, e |-> 2]
getScaleFactorX == [m |-> 1, e |-> 0]
getScaleFactorY == [m |-> 1, e |-> 0]
FMul(a, b) == Norm(RoundSig(a.m * b.m), a.e + b.e)

NoFont == [funcs |-> "none", x_scale |-> 0, y_scale |-> 0, x_ppem |-> 0, y_ppem |-> 0]
NoShaped == [any |-> FALSE, offset |-> 0, count |-> 0, max |-> 0, x |-> F0, y |-> F0]

\* arg: the indexBase, extraBits or glyphIndex of an extraction call that read it.
Last(op, sIn, sOut, r, out, arg) ==
    [op |-> op, sIn |-> sIn, sOut |-> sOut, ret |-> r, out |-> out, arg |-> arg]

(***************************************************************************)
(* LayoutEngine::LayoutEngine.  bufferOK and fontOK say whether the          *)
(* engine's allocations succeed; garbage is what x and y, which no           *)
(* initialiser sets, happen to hold.                                         *)
(***************************************************************************)
Constructor(scriptCode, typoFlags, success, bufferOK, fontOK, garbage) ==
    LET base == [fHbFont |-> "NULL", fHbBuffer |-> "NULL", fTypoFlags |-> typoFlags,
                 x |-> garbage[1], y |-> garbage[2],
                 buffer |-> hb_buffer_create, font |-> NoFont, success |-> success]
    IN  IF LE_FAILURE(success) THEN base
        ELSE IF ~bufferOK
        THEN [base EXCEPT !.fHbBuffer = "empty", !.success = LE_MEMORY_ALLOCATION_ERROR]
        ELSE LET withBuf ==
                   [base EXCEPT
                      !.fHbBuffer = "real",
                      !.buffer = hb_buffer_set_script(hb_buffer_create,
                                                      hb_icu_script_to_script(scriptCode))]
             IN  IF ~fontOK
                 THEN [withBuf EXCEPT !.fHbFont = "empty",
                                      !.success = LE_MEMORY_ALLOCATION_ERROR]
                 ELSE [withBuf EXCEPT
                         !.fHbFont = "real",
                         !.font = [funcs |-> "icu_le_hb_font_funcs",
                                   x_scale |-> from_float(FMul(getXPixelsPerEm, getScaleFactorX)),
                                   y_scale |-> -from_float(FMul(getYPixelsPerEm, getScaleFactorY)),
                                   x_ppem |-> IntOfFloat(getXPixelsPerEm),
                                   y_ppem |-> IntOfFloat(getYPixelsPerEm)]]

\* The destructor with the buffer destroyed before the font, and the engine's
\* empty objects destroyed like real ones.
Destructor_BufferFirst(hbFont, hbBuffer) ==
    (IF hbBuffer # "NULL" THEN <<"buffer">> ELSE <<>>)
      \o (IF hbFont # "NULL" THEN <<"font">> ELSE <<>>)

\* LayoutEngine::~LayoutEngine: the real handles it releases, in order
\* (hb_font_destroy and hb_buffer_destroy do nothing on NULL and on the
\* engine's empty objects).
Destructor(hbFont, hbBuffer) ==
    (IF hbFont = "real" THEN <<"font">> ELSE <<>>)
      \o (IF hbBuffer = "real" THEN <<"buffer">> ELSE <<>>)

\* The real handles an object holds.
Acquired(o) ==
    (IF o.fHbBuffer = "real" THEN <<"buffer">> ELSE <<>>)
      \o (IF o.fHbFont = "real" THEN <<"font">> ELSE <<>>)

NoObject(acq, rel, l) ==
    /\ phase' = "none"
    /\ fHbFont' = "NULL"
    /\ fHbBuffer' = "NULL"
    /\ fTypoFlags' = 0
    /\ x' = F0
    /\ y' = F0
    /\ buffer' = hb_buffer_create
    /\ font' = NoFont
    /\ acquired' = acq
    /\ released' = rel
    /\ shaped' = NoShaped
    /\ last' = l

Install(o, ph, l) ==
    /\ phase' = ph
    /\ fHbFont' = o.fHbFont
    /\ fHbBuffer' = o.fHbBuffer
    /\ fTypoFlags' = o.fTypoFlags
    /\ x' = o.x
    /\ y' = o.y
    /\ buffer' = o.buffer
    /\ font' = o.font
    /\ acquired' = Acquired(o)
    /\ released' = <<>>
    /\ shaped' = NoShaped
    /\ last' = l

\* layoutEngineFactory that returns the object whatever its constructor reported.
layoutEngineFactory_NoDelete(scriptCode, typoFlags, success, newOK, bufferOK, fontOK, garbage) ==
    LET o == Constructor(scriptCode, typoFlags, success, bufferOK, fontOK, garbage)
    IN  IF LE_FAILURE(success)
        THEN [isNull |-> TRUE, object |-> o, made |-> FALSE, success |-> success,
              released |-> <<>>]
        ELSE IF ~newOK
        THEN [isNull |-> TRUE, object |-> o, made |-> FALSE,
              success |-> LE_MEMORY_ALLOCATION_ERROR, released |-> <<>>]
        ELSE [isNull |-> FALSE, object |-> o, made |-> TRUE, success |-> o.success,
              released |-> <<>>]

\* LayoutEngine::layoutEngineFactory (fontInstance, scriptCode, languageCode,
\* typoFlags, success): the outcome of the call.  newOK says whether operator
\* new returns an object.  [isNull: whether NULL is returned, object: the
\* object constructed (returned unless isNull), made: whether the constructor
\* ran, success, released: the handles released by delete]
layoutEngineFactory(scriptCode, typoFlags, success, newOK, bufferOK, fontOK, garbage) ==
    LET o == Constructor(scriptCode, typoFlags, success, bufferOK, fontOK, garbage)
    IN  IF LE_FAILURE(success)
        THEN [isNull |-> TRUE, object |-> o, made |-> FALSE, success |-> success,
              released |-> <<>>]
        ELSE IF ~newOK
        THEN [isNull |-> TRUE, object |-> o, made |-> FALSE,
              success |-> LE_MEMORY_ALLOCATION_ERROR, released |-> <<>>]
        ELSE IF LE_FAILURE(o.success)
        THEN [isNull |-> TRUE, object |-> o, made |-> TRUE,
              success |-> LE_MEMORY_ALLOCATION_ERROR,
              released |-> Destructor(o.fHbFont, o.fHbBuffer)]
        ELSE [isNull |-> FALSE, object |-> o, made |-> TRUE, success |-> o.success,
              released |-> <<>>]

FactoryStep(op, scriptCode, typoFlags, success, newOK, bufferOK, fontOK, garbage) ==
    LET r == layoutEngineFactory(scriptCode, typoFlags, success, newOK, bufferOK,
                                 fontOK, garbage)
    IN  IF LE_FAILURE(success)
        THEN /\ last' = Last(op, success, r.success, 0, <<>>, 0)
             /\ UNCHANGED <<phase, fHbFont, fHbBuffer, fTypoFlags, x, y, buffer, font,
                            acquired, released, shaped>>
        ELSE IF r.isNull
        THEN NoObject(IF r.made THEN Acquired(r.object) ELSE <<>>, r.released,
                      Last(op, success, r.success, 0, <<>>, 0))
        ELSE Install(r.object, "live", Last(op, success, r.success, 1, <<>>, 0))

\* The factory that takes typoFlags.
LayoutEngineFactoryFlags ==
    /\ phase = "none"
    /\ \E scriptCode \in ScriptCodes, typoFlags \in TypoFlagVals, success \in StatusVals,
          newOK \in BOOLEAN, bufferOK \in BOOLEAN, fontOK \in BOOLEAN,
          garbage \in GarbagePairs :
         FactoryStep("layoutEngineFactory", scriptCode, typoFlags, success, newOK,
                     bufferOK, fontOK, garbage)
    /\ UNCHANGED <<funcsVars, auxVars>>

\* The factory without typoFlags: 3 -> kerning and ligatures.
LayoutEngineFactoryDefault ==
    /\ phase = "none"
    /\ \E scriptCode \in ScriptCodes, success \in StatusVals,
          newOK \in BOOLEAN, bufferOK \in BOOLEAN, fontOK \in BOOLEAN,
          garbage \in GarbagePairs :
         FactoryStep("layoutEngineFactoryDefault", scriptCode, 3, success, newOK,
                     bufferOK, fontOK, garbage)
    /\ UNCHANGED <<funcsVars, auxVars>>

\* The constructor called directly (a subclass, or an object with automatic
\* storage): the object exists whatever the status says.
Construct ==
    /\ phase = "none"
    /\ \E scriptCode \in ScriptCodes, typoFlags \in TypoFlagVals, success \in StatusVals,
          bufferOK \in BOOLEAN, fontOK \in BOOLEAN, garbage \in GarbagePairs :
         LET o == Constructor(scriptCode, typoFlags, success, bufferOK, fontOK, garbage)
         IN  Install(o, IF o.fHbFont = "real" THEN "live" ELSE "failed",
                     Last("LayoutEngine", success, o.success, 0, <<>>, 0))
    /\ UNCHANGED <<funcsVars, auxVars>>

\* delete engine
Destroy ==
    /\ phase \in {"live", "failed"}
    /\ NoObject(acquired, released \o Destructor(fHbFont, fHbBuffer),
                Last("~LayoutEngine", LE_NO_ERROR, LE_NO_ERROR, 0, <<>>, 0))
    /\ UNCHANGED <<funcsVars, auxVars>>

(***************************************************************************)
(* LayoutEngine::layoutChars                                                *)
(***************************************************************************)
\* The two uses of offset + count.  The sum of two le_int32 overflows for
\* some arguments, which the language leaves undefined: a build either wraps
\* it (wraps) or compiles the comparison as if the sum were exact.
SumGreater(a, b, c, wraps) ==
    IF wraps THEN Add32(a, b) > c ELSE TrueSumGreater(a, b, c)
SumEquals(a, b, c, wraps) ==
    IF wraps THEN Add32(a, b) = c ELSE TrueSumEquals(a, b, c)

\* The condition of the argument check.
ArgsIllegal(hasChars, offset, count, max, wraps) ==
    \/ ~hasChars
    \/ offset < 0
    \/ count < 0
    \/ max < 0
    \/ offset >= max
    \/ SumGreater(offset, count, max, wraps)

\* BoundaryFlags with the end of text tested on count alone.
BoundaryFlags_CountOnly(offset, count, max, wraps) ==
    (IF offset = 0 THEN {HB_BUFFER_FLAG_BOT} ELSE {})
      \cup (IF count = max THEN {HB_BUFFER_FLAG_EOT} ELSE {})

\* The flags handed to hb_buffer_set_flags.
BoundaryFlags(offset, count, max, wraps) ==
    (IF offset = 0 THEN {HB_BUFFER_FLAG_BOT} ELSE {})
      \cup (IF SumEquals(offset, count, max, wraps) THEN {HB_BUFFER_FLAG_EOT} ELSE {})

\* PopulateAndShape with the span added as items offset .. offset+count-1 of
\* chars itself, so that clusters index the caller's array.
PopulateAndShape_AbsoluteClusters(buf, chars, offset, count, max, rightToLeft, wraps, junk) ==
    LET b1 == hb_buffer_set_direction(buf, IF rightToLeft THEN HB_DIRECTION_RTL
                                                         ELSE HB_DIRECTION_LTR)
        b2 == hb_buffer_set_length0(b1)
        b3 == hb_buffer_set_flags(b2, (IF offset = 0 THEN {HB_BUFFER_FLAG_BOT} ELSE {})
                  \cup (IF SumEquals(offset, count, max, wraps)
                        THEN {HB_BUFFER_FLAG_EOT} ELSE {}))
        b5 == hb_buffer_add_utf16(b3, chars, 0, max, offset, count, junk)
    IN  hb_shape(b5)

\* PopulateAndShape with the text before the span added as items too.
PopulateAndShape_ContextAsItems(buf, chars, offset, count, max, rightToLeft, wraps, junk) ==
    LET b1 == hb_buffer_set_direction(buf, IF rightToLeft THEN HB_DIRECTION_RTL
                                                         ELSE HB_DIRECTION_LTR)
        b2 == hb_buffer_set_length0(b1)
        b3 == hb_buffer_set_flags(b2, BoundaryFlags(offset, count, max, wraps))
        b4 == hb_buffer_add_utf16(b3, chars, 0, max, 0, offset, junk)
        b5 == hb_buffer_add_utf16(b4, chars, offset, max - offset, 0, count, junk)
    IN  hb_shape(b5)

\* PopulateAndShape without the call that empties the buffer.
PopulateAndShape_KeepsRecords(buf, chars, offset, count, max, rightToLeft, wraps, junk) ==
    LET b1 == hb_buffer_set_direction(buf, IF rightToLeft THEN HB_DIRECTION_RTL
                                                         ELSE HB_DIRECTION_LTR)
        b3 == hb_buffer_set_flags(b1, BoundaryFlags(offset, count, max, wraps))
        b4 == hb_buffer_add_utf16(b3, chars, 0, max, offset, 0, junk)
        b5 == hb_buffer_add_utf16(b4, chars, offset, max - offset, 0, count, junk)
    IN  hb_shape(b5)

\* The buffer after the two population passes and hb_shape.
PopulateAndShape(buf, chars, offset, count, max, rightToLeft, wraps, junk) ==
    LET b1 == hb_buffer_set_direction(buf, IF rightToLeft THEN HB_DIRECTION_RTL
                                                         ELSE HB_DIRECTION_LTR)
        b2 == hb_buffer_set_length0(b1)
        b3 == hb_buffer_set_flags(b2, BoundaryFlags(offset, count, max, wraps))
        b4 == hb_buffer_add_utf16(b3, chars, 0, max, offset, 0, junk)
        b5 == hb_buffer_add_utf16(b4, chars, offset, max - offset, 0, count, junk)
    IN  hb_shape(b5)

\* layoutChars without the test of the status on entry.
layoutChars_StatusUnchecked(self, hasChars, chars, offset, count, max, rightToLeft, px, py, success, wraps, junk) ==
    IF ArgsIllegal(hasChars, offset, count, max, wraps)
    THEN [x |-> self.x, y |-> self.y, buffer |-> self.buffer,
          success |-> LE_ILLEGAL_ARGUMENT_ERROR, ret |-> 0]
    ELSE LET b == PopulateAndShape(self.buffer, chars, offset, count, max, rightToLeft,
                                   wraps, junk)
         IN  [x |-> px, y |-> py, buffer |-> b, success |-> success,
              ret |-> hb_buffer_get_length(b)]

\* self = [x, y, buffer]; the result is [x, y, buffer, success, ret].
layoutChars(self, hasChars, chars, offset, count, max, rightToLeft, px, py, success, wraps, junk) ==
    IF LE_FAILURE(success)
    THEN [x |-> self.x, y |-> self.y, buffer |-> self.buffer, success |-> success,
          ret |-> 0]
    ELSE IF ArgsIllegal(hasChars, offset, count, max, wraps)
    THEN [x |-> self.x, y |-> self.y, buffer |-> self.buffer,
          success |-> LE_ILLEGAL_ARGUMENT_ERROR, ret |-> 0]
    ELSE LET b == PopulateAndShape(self.buffer, chars, offset, count, max, rightToLeft,
                                   wraps, junk)
         IN  [x |-> px, y |-> py, buffer |-> b, success |-> success,
              ret |-> hb_buffer_get_length(b)]

Self == [x |-> x, y |-> y, buffer |-> buffer]

LayoutCharsStep(hasChars, chars, offset, count, max, rightToLeft, pen, success, wraps, junk) ==
    LET r == layoutChars(Self, hasChars, chars, offset, count, max, rightToLeft,
                         pen[1], pen[2], success, wraps, junk)
        accepted == LE_SUCCESS(success) /\ LE_SUCCESS(r.success)
    IN  /\ x' = r.x
        /\ y' = r.y
        /\ buffer' = r.buffer
        /\ shaped' = IF accepted
                     THEN [any |-> TRUE, offset |-> offset, count |-> count, max |-> max,
                           x |-> pen[1], y |-> pen[2]]
                     ELSE shaped
        /\ last' = Last("layoutChars", success, r.success, r.ret, <<>>, 0)

\* What the build makes of offset + count: both outcomes where it overflows.
WrapOutcomes(offset, count) ==
    IF OverflowsHigh(offset, count) \/ OverflowsLow(offset, count) THEN BOOLEAN ELSE {TRUE}

\* What is read behind the caller's array, where the item run leaves it.
JunkOutcomes(offset, count) ==
    IF offset >= 0 /\ TrueSumGreater(offset, count, MaxLen) THEN Chars ELSE {CharBase}

\* Each argument is drawn where the call reads it: nothing but the status by
\* a call entered with a failure, nothing behind chars when chars is NULL,
\* the text, the direction and the pen by an accepted call.
LayoutChars ==
    /\ phase = "live"
    /\ \E success \in StatusVals :
         IF LE_FAILURE(success)
         THEN LayoutCharsStep(FALSE, <<>>, 0, 0, 0, FALSE, <<F0, F0>>, success, TRUE,
                              CharBase)
         ELSE \/ LayoutCharsStep(FALSE, <<>>, 0, 0, 0, FALSE, <<F0, F0>>, success, TRUE,
                                 CharBase)
              \/ \E offset \in OffsetVals, count \in CountVals, max \in MaxVals :
                   \E wraps \in WrapOutcomes(offset, count) :
                     IF ArgsIllegal(TRUE, offset, count, max, wraps)
                     THEN LayoutCharsStep(TRUE, <<>>, offset, count, max, FALSE,
                                          <<F0, F0>>, success, wraps, CharBase)
                     ELSE \E chars \in Texts, rightToLeft \in BOOLEAN, pen \in PenPairs,
                             junk \in JunkOutcomes(offset, count) :
                            LayoutCharsStep(TRUE, chars, offset, count, max, rightToLeft,
                                            pen, success, wraps, junk)
    /\ UNCHANGED <<phase, fHbFont, fHbBuffer, fTypoFlags, font, acquired, released>>
    /\ UNCHANGED <<funcsVars, auxVars>>

\* reset that clears the buffer and leaves the pen.
reset_KeepsPen(self) ==
    [x |-> self.x, y |-> self.y, buffer |-> hb_buffer_set_length0(self.buffer)]

\* LayoutEngine::reset
reset(self) == [x |-> F0, y |-> F0, buffer |-> hb_buffer_set_length0(self.buffer)]

Reset ==
    /\ phase = "live"
    /\ LET r == reset(Self)
       IN  /\ x' = r.x
           /\ y' = r.y
           /\ buffer' = r.buffer
    /\ shaped' = NoShaped
    /\ last' = Last("reset", LE_NO_ERROR, LE_NO_ERROR, 0, <<>>, 0)
    /\ UNCHANGED <<phase, fHbFont, fHbBuffer, fTypoFlags, font, acquired, released>>
    /\ UNCHANGED <<funcsVars, auxVars>>

(***************************************************************************)
(* Result extraction.  Each operator gives the sequence of values the call  *)
(* writes to the caller's output, in index order (<<>>: nothing written).   *)
(***************************************************************************)
RECURSIVE BitOr(_, _)
BitOr(a, b) ==
    IF a = 0 THEN b
    ELSE IF b = 0 THEN a
    ELSE 2 * BitOr(a \div 2, b \div 2) + Max(a % 2, b % 2)

\* LayoutEngine::getGlyphCount
getGlyphCount(buf) == hb_buffer_get_length(buf)

\* getCharIndices (charIndices, indexBase, success) without the addition of
\* indexBase.
getCharIndicesBase_NoBase(buf, indexBase, success) ==
    IF LE_FAILURE(success) THEN <<>>
    ELSE [i \in 1..Len(buf.info) |-> buf.info[i].cluster]

\* LayoutEngine::getCharIndices (charIndices, indexBase, success)
getCharIndicesBase(buf, indexBase, success) ==
    IF LE_FAILURE(success) THEN <<>>
    ELSE [i \in 1..Len(buf.info) |-> Add32(buf.info[i].cluster, indexBase)]

\* LayoutEngine::getCharIndices (charIndices, success)
getCharIndices(buf, success) ==
    IF LE_FAILURE(success) THEN <<>>
    ELSE [i \in 1..Len(buf.info) |-> buf.info[i].cluster]

\* LayoutEngine::getGlyphs (glyphs, extraBits, success)
getGlyphsExtra(buf, extraBits, success) ==
    IF LE_FAILURE(success) THEN <<>>
    ELSE [i \in 1..Len(buf.info) |-> BitOr(buf.info[i].codepoint, extraBits)]

\* LayoutEngine::getGlyphs (glyphs, success)
getGlyphs(buf, success) ==
    IF LE_FAILURE(success) THEN <<>>
    ELSE [i \in 1..Len(buf.info) |-> buf.info[i].codepoint]

\* pos[i] (0-based) of the engine's position array, or whatever lies behind
\* the records when i is not below their number.
PosAt(pos, i, junkPos) == IF i >= 0 /\ i < Len(pos) THEN pos[i + 1] ELSE junkPos

\* The pen after the loop body has run for i = 0 .. k-1, from (px, py).
RECURSIVE PenAfter(_, _, _, _, _)
PenAfter(pos, k, px, py, junkPos) ==
    IF k = 0 THEN <<px, py>>
    ELSE LET before == PenAfter(pos, k - 1, px, py, junkPos)
             p == PosAt(pos, k - 1, junkPos)
         IN  <<FAdd(before[1], to_float(p.x_advance)),
               FAdd(before[2], to_float(p.y_advance))>>

ZeroPos == [x_advance |-> 0, y_advance |-> 0, x_offset |-> 0, y_offset |-> 0]

\* getGlyphPositions with the last glyph's offset left in the trailing pair.
getGlyphPositions_TrailingOffset(self, success) ==
    IF LE_FAILURE(success) THEN <<>>
    ELSE LET pos == self.buffer.pos
             n == Len(pos)
         IN  [j \in 1..(2 * n + 2) |->
                LET i == (j - 1) \div 2
                    k == IF i = n /\ n > 0 THEN n - 1 ELSE i
                    pen == PenAfter(pos, i, self.x, self.y, ZeroPos)
                IN  IF n = 0 THEN pen[((j - 1) % 2) + 1]
                    ELSE IF (j - 1) % 2 = 0
                    THEN FAdd(pen[1], to_float(pos[k + 1].x_offset))
                    ELSE FAdd(pen[2], to_float(pos[k + 1].y_offset))]

\* LayoutEngine::getGlyphPositions
getGlyphPositions(self, success) ==
    IF LE_FAILURE(success) THEN <<>>
    ELSE LET pos == self.buffer.pos
             n == Len(pos)
         IN  [j \in 1..(2 * n + 2) |->
                LET i == (j - 1) \div 2
                    pen == PenAfter(pos, i, self.x, self.y, ZeroPos)
                IN  IF i = n THEN pen[((j - 1) % 2) + 1]
                    ELSE IF (j - 1) % 2 = 0
                    THEN FAdd(pen[1], to_float(pos[i + 1].x_offset))
                    ELSE FAdd(pen[2], to_float(pos[i + 1].y_offset))]

\* getGlyphPosition with the loop run up to and including glyphIndex.
getGlyphPosition_OwnAdvance(self, glyphIndex, success, junkPos) ==
    IF LE_FAILURE(success) THEN <<>>
    ELSE LET pos == self.buffer.pos
             pen == PenAfter(pos, Max(glyphIndex + 1, 0), self.x, self.y, junkPos)
             p == PosAt(pos, glyphIndex, junkPos)
         IN  <<FAdd(pen[1], to_float(p.x_offset)), FAdd(pen[2], to_float(p.y_offset))>>

\* LayoutEngine::getGlyphPosition: <<x, y>> as written.  The loop runs for
\* i < (unsigned int) glyphIndex, which for a negative glyphIndex or one past
\* the records reads behind the position array; such reads are followed for
\* MaxOverread records.
getGlyphPosition(self, glyphIndex, success, junkPos) ==
    IF LE_FAILURE(success) THEN <<>>
    ELSE LET pos == self.buffer.pos
             n == Len(pos)
             steps == IF glyphIndex < 0 THEN n + MaxOverread
                      ELSE Min(glyphIndex, n + MaxOverread)
             pen == PenAfter(pos, steps, self.x, self.y, junkPos)
             p == PosAt(pos, glyphIndex, junkPos)
         IN  <<FAdd(pen[1], to_float(p.x_offset)), FAdd(pen[2], to_float(p.y_offset))>>

\* The indices i of the records pos[i] that getGlyphPosition reads when the
\* buffer holds n records: the loop reads 0 .. (unsigned int) glyphIndex - 1,
\* followed for MaxOverread records behind the array, and the statements
\* after the loop read pos[glyphIndex].
getGlyphPositionReads(n, glyphIndex) ==
    LET steps == IF glyphIndex < 0 THEN n + MaxOverread
                 ELSE Min(glyphIndex, n + MaxOverread)
    IN  (0..(steps - 1)) \cup {glyphIndex}

JunkPositions == {[x_advance |-> 256, y_advance |-> 64, x_offset |-> 32, y_offset |-> -32]}

Extract(l) ==
    /\ phase = "live"
    /\ last' = l
    /\ UNCHANGED <<phase, fHbFont, fHbBuffer, fTypoFlags, x, y, buffer, font, acquired,
                   released, shaped>>
    /\ UNCHANGED <<funcsVars, auxVars>>

GetGlyphCount ==
    Extract(Last("getGlyphCount", LE_NO_ERROR, LE_NO_ERROR, getGlyphCount(buffer), <<>>,
                 0))

GetCharIndicesBase ==
    \E success \in StatusVals, indexBase \in IndexBases :
      Extract(Last("getCharIndicesBase", success, success, 0,
                   getCharIndicesBase(buffer, indexBase, success),
                   IF LE_FAILURE(success) THEN 0 ELSE indexBase))

GetCharIndices ==
    \E success \in StatusVals :
      Extract(Last("getCharIndices", success, success, 0,
                   getCharIndices(buffer, success), 0))

GetGlyphsExtra ==
    \E success \in StatusVals, extraBits \in ExtraBitsVals :
      Extract(Last("getGlyphsExtra", success, success, 0,
                   getGlyphsExtra(buffer, extraBits, success),
                   IF LE_FAILURE(success) THEN 0 ELSE extraBits))

GetGlyphs ==
    \E success \in StatusVals :
      Extract(Last("getGlyphs", success, success, 0, getGlyphs(buffer, success), 0))

GetGlyphPositions ==
    \E success \in StatusVals :
      Extract(Last("getGlyphPositions", success, success, 0,
                   getGlyphPositions(Self, success), 0))

GetGlyphPosition ==
    \E success \in StatusVals, glyphIndex \in GlyphIndexVals, junkPos \in JunkPositions :
      Extract(Last("getGlyphPosition", success, success, 0,
                   getGlyphPosition(Self, glyphIndex, success, junkPos),
                   IF LE_FAILURE(success) THEN 0 ELSE glyphIndex))

(***************************************************************************)
(* The argument check of layoutChars over the whole le_int32 range: one     *)
(* call on a session that holds a result, its arguments drawn by Init.      *)
(***************************************************************************)
Int32Samples == {INT32_MIN, -1, 0, 1, 2, 3, INT32_MAX - 1, INT32_MAX}

NoProbe ==
    [called |-> FALSE, hasChars |-> FALSE, offset |-> 0, count |-> 0, max |-> 0,
     wraps |-> TRUE, success |-> LE_NO_ERROR, ret |-> 0, changed |-> FALSE]

\* A session after layoutChars (chars, 0, 1, 1, FALSE, 0, 0, status).
ProbeSelf ==
    [x |-> F0, y |-> F0,
     buffer |-> PopulateAndShape(hb_buffer_create, <<CharBase>>, 0, 1, 1, FALSE, TRUE,
                                 CharBase)]

ProbeText == CHOOSE t \in Texts : TRUE

ProbeCall ==
    /\ ~probe.called
    /\ LET r == layoutChars(ProbeSelf, probe.hasChars, ProbeText, probe.offset, probe.count,
                            probe.max, FALSE, F0, F0, LE_NO_ERROR, probe.wraps, CharBase)
       IN  probe' = [probe EXCEPT !.called = TRUE, !.success = r.success, !.ret = r.ret,
                                  !.changed = (r.buffer # ProbeSelf.buffer)]
    /\ UNCHANGED <<sessionVars, funcsVars, conv, cb, twin, fresh>>

(***************************************************************************)
(* The conversions alone: one fixed-point value, drawn by Init, taken       *)
(* through to_float and back through from_float.                            *)
(***************************************************************************)
LargeFixed ==
    {2^24 - 1, 2^24, 2^24 + 1, 2^24 + 3, 2^25 - 1, 2^25 + 1, 2^25 + 3, 2^26 + 3,
     2^26 + 5, 2^30 + 33, INT32_MAX - HalfTopUlp, INT32_MAX - HalfTopUlp + 1,
     INT32_MAX}
FixedSamples ==
    (-MaxFixed..MaxFixed) \cup LargeFixed \cup {-v : v \in LargeFixed} \cup {INT32_MIN}

NoConv == [called |-> FALSE, v |-> 0, f |-> F0, back |-> 0]

RoundTrip ==
    /\ ~conv.called
    /\ \E back \in from_float_outcomes(to_float(conv.v)) :
         conv' = [conv EXCEPT !.called = TRUE, !.f = to_float(conv.v), !.back = back]
    /\ UNCHANGED <<sessionVars, funcsVars, probe, cb, twin, fresh>>

(***************************************************************************)
(* The char-to-glyph callback alone: one call, its arguments drawn by Init. *)
(***************************************************************************)
UnicodeSamples == 0..MaxUnicode
\* No selector, VARIATION SELECTOR-1 and VARIATION SELECTOR-17.
SelectorSamples == {0, 65024, 917760}

NoCall ==
    [called |-> FALSE, unicode |-> 0, variation_selector |-> 0, glyph |-> 0,
     ret |-> FALSE]

GlyphCall ==
    /\ ~cb.called
    /\ LET r == icu_le_hb_font_get_glyph(cb.unicode, cb.variation_selector)
       IN  cb' = [cb EXCEPT !.called = TRUE, !.glyph = r.glyph, !.ret = r.ret]
    /\ UNCHANGED <<sessionVars, funcsVars, probe, conv, twin, fresh>>

(***************************************************************************)
(* Two sessions with the same font and script and different typoFlags, put  *)
(* through the same calls: the session of the session variables, and twin,  *)
(* [fTypoFlags, x, y, buffer, ret, out], ret and out being what its latest  *)
(* call returned and wrote.                                                 *)
(***************************************************************************)
NoTwin ==
    [live |-> FALSE, fTypoFlags |-> 0, x |-> F0, y |-> F0, buffer |-> hb_buffer_create,
     ret |-> 0, out |-> <<>>]

TwinSelf == [x |-> twin.x, y |-> twin.y, buffer |-> twin.buffer]

TwinStep(hasChars, chars, offset, count, max, rightToLeft, pen, success, wraps, junk) ==
    LET r == layoutChars(TwinSelf, hasChars, chars, offset, count, max, rightToLeft,
                         pen[1], pen[2], success, wraps, junk)
    IN  /\ LayoutCharsStep(hasChars, chars, offset, count, max, rightToLeft, pen,
                           success, wraps, junk)
        /\ twin' = [twin EXCEPT !.x = r.x, !.y = r.y, !.buffer = r.buffer,
                                !.ret = r.ret, !.out = <<>>]

\* layoutChars entered with a success status, on both sessions.
TwinsLayoutChars ==
    /\ phase = "live"
    /\ \E success \in {LE_NO_ERROR} :
              \/ TwinStep(FALSE, <<>>, 0, 0, 0, FALSE, <<F0, F0>>, success, TRUE,
                          CharBase)
              \/ \E offset \in OffsetVals, count \in CountVals, max \in MaxVals :
                   \E wraps \in WrapOutcomes(offset, count) :
                     IF ArgsIllegal(TRUE, offset, count, max, wraps)
                     THEN TwinStep(TRUE, <<>>, offset, count, max, FALSE, <<F0, F0>>,
                                   success, wraps, CharBase)
                     ELSE \E chars \in Texts, rightToLeft \in BOOLEAN, pen \in PenPairs,
                             junk \in JunkOutcomes(offset, count) :
                            TwinStep(TRUE, chars, offset, count, max, rightToLeft, pen,
                                     success, wraps, junk)
    /\ UNCHANGED <<phase, fHbFont, fHbBuffer, fTypoFlags, font, acquired, released>>
    /\ UNCHANGED <<funcsVars, probe, conv, cb, fresh>>

\* reset, on both sessions.
TwinsReset ==
    /\ phase = "live"
    /\ LET r == reset(Self)
           t == reset(TwinSelf)
       IN  /\ x' = r.x
           /\ y' = r.y
           /\ buffer' = r.buffer
           /\ twin' = [twin EXCEPT !.x = t.x, !.y = t.y, !.buffer = t.buffer,
                                   !.ret = 0, !.out = <<>>]
    /\ shaped' = NoShaped
    /\ last' = Last("reset", LE_NO_ERROR, LE_NO_ERROR, 0, <<>>, 0)
    /\ UNCHANGED <<phase, fHbFont, fHbBuffer, fTypoFlags, font, acquired, released>>
    /\ UNCHANGED <<funcsVars, probe, conv, cb, fresh>>

TwinsExtract(l, t) ==
    /\ phase = "live"
    /\ last' = l
    /\ twin' = [twin EXCEPT !.ret = t.ret, !.out = t.out]
    /\ UNCHANGED <<phase, fHbFont, fHbBuffer, fTypoFlags, x, y, buffer, font, acquired,
                   released, shaped>>
    /\ UNCHANGED <<funcsVars, probe, conv, cb, fresh>>

\* getGlyphCount, getGlyphs, getCharIndices and getGlyphPositions entered
\* with a success status, on both sessions.
TwinsGlyphCount ==
    TwinsExtract(Last("getGlyphCount", LE_NO_ERROR, LE_NO_ERROR, getGlyphCount(buffer),
                      <<>>, 0),
                 [ret |-> getGlyphCount(twin.buffer), out |-> <<>>])

TwinsGlyphs ==
    TwinsExtract(Last("getGlyphs", LE_NO_ERROR, LE_NO_ERROR, 0,
                      getGlyphs(buffer, LE_NO_ERROR), 0),
                 [ret |-> 0, out |-> getGlyphs(twin.buffer, LE_NO_ERROR)])

TwinsCharIndices ==
    TwinsExtract(Last("getCharIndices", LE_NO_ERROR, LE_NO_ERROR, 0,
                      getCharIndices(buffer, LE_NO_ERROR), 0),
                 [ret |-> 0, out |-> getCharIndices(twin.buffer, LE_NO_ERROR)])

TwinsPositions ==
    TwinsExtract(Last("getGlyphPositions", LE_NO_ERROR, LE_NO_ERROR, 0,
                      getGlyphPositions(Self, LE_NO_ERROR), 0),
                 [ret |-> 0, out |-> getGlyphPositions(TwinSelf, LE_NO_ERROR)])

(***************************************************************************)
(* A session and its history.  Each accepted layoutChars is also put to a   *)
(* session that has just been constructed with the same font and script;    *)
(* fresh keeps that session's answer, beside what this session held and     *)
(* what its latest call was when the accepted call arrived.                 *)
(***************************************************************************)
NoFresh ==
    [valid |-> FALSE, self |-> [x |-> F0, y |-> F0, buffer |-> hb_buffer_create],
     ret |-> 0, got |-> 0,
     before |-> [result |-> FALSE, rejected |-> FALSE]]

\* The session as the constructor leaves it (x and y hold anything).
NewSelf(scriptCode, garbage) ==
    LET o == Constructor(scriptCode, 3, LE_NO_ERROR, TRUE, TRUE, garbage)
    IN  [x |-> o.x, y |-> o.y, buffer |-> o.buffer]

FreshStep(hasChars, chars, offset, count, max, rightToLeft, pen, success, wraps, junk) ==
    LET r == layoutChars(Self, hasChars, chars, offset, count, max, rightToLeft,
                         pen[1], pen[2], success, wraps, junk)
        accepted == LE_SUCCESS(success) /\ LE_SUCCESS(r.success)
    IN  /\ LayoutCharsStep(hasChars, chars, offset, count, max, rightToLeft, pen,
                           success, wraps, junk)
        /\ fresh' =
             IF ~accepted THEN fresh
             ELSE LET n == CHOOSE g \in GarbagePairs : g # <<x, y>>
                      rf == layoutChars(NewSelf(CHOOSE c \in ScriptCodes : TRUE, n),
                                        hasChars, chars, offset, count, max,
                                        rightToLeft, pen[1], pen[2], success, wraps,
                                        junk)
                  IN  [valid |-> TRUE,
                       self |-> [x |-> rf.x, y |-> rf.y, buffer |-> rf.buffer],
                       ret |-> rf.ret, got |-> r.ret,
                       before |-> [result |-> shaped.any,
                                   rejected |-> (last.op = "layoutChars"
                                                   /\ LE_FAILURE(last.sOut))]]

\* LayoutChars entered with a success status, with the same call put to a
\* new session.
FreshLayoutChars ==
    /\ phase = "live"
    /\ \E success \in {LE_NO_ERROR} :
              \/ FreshStep(FALSE, <<>>, 0, 0, 0, FALSE, <<F0, F0>>, success, TRUE,
                           CharBase)
              \/ \E offset \in OffsetVals, count \in CountVals, max \in MaxVals :
                   \E wraps \in WrapOutcomes(offset, count) :
                     IF ArgsIllegal(TRUE, offset, count, max, wraps)
                     THEN FreshStep(TRUE, <<>>, offset, count, max, FALSE, <<F0, F0>>,
                                    success, wraps, CharBase)
                     ELSE \E chars \in Texts, rightToLeft \in BOOLEAN, pen \in PenPairs,
                             junk \in JunkOutcomes(offset, count) :
                            FreshStep(TRUE, chars, offset, count, max, rightToLeft, pen,
                                      success, wraps, junk)
    /\ UNCHANGED <<phase, fHbFont, fHbBuffer, fTypoFlags, font, acquired, released>>
    /\ UNCHANGED <<funcsVars, probe, conv, cb, twin>>

\* Reset; the answer kept of the new session goes with the result.
FreshReset ==
    /\ phase = "live"
    /\ LET r == reset(Self)
       IN  /\ x' = r.x
           /\ y' = r.y
           /\ buffer' = r.buffer
    /\ shaped' = NoShaped
    /\ last' = Last("reset", LE_NO_ERROR, LE_NO_ERROR, 0, <<>>, 0)
    /\ fresh' = NoFresh
    /\ UNCHANGED <<phase, fHbFont, fHbBuffer, fTypoFlags, font, acquired, released>>
    /\ UNCHANGED <<funcsVars, probe, conv, cb, twin>>

\* getGlyphPositions entered with a success status.
FreshRead ==
    Extract(Last("getGlyphPositions", LE_NO_ERROR, LE_NO_ERROR, 0,
                 getGlyphPositions(Self, LE_NO_ERROR), 0))

(***************************************************************************)
(* icu_le_hb_get_font_funcs, one step per access to the static ffuncs.       *)
(* Tables are numbered from 1 in the order hb_font_funcs_create makes them.  *)
(***************************************************************************)
Threads == 1..NThreads

\* retry: if (!ffuncs)
FuncsCheck(t) ==
    /\ pc[t] = "check"
    /\ pc' = [pc EXCEPT ![t] = IF ffuncs = 0 THEN "create" ELSE "return"]
    /\ UNCHANGED <<ffuncs, f, ret, created, destroyed, installs>>

\* f = hb_font_funcs_create (); hb_font_funcs_set_*_func (f, ...)
FuncsCreate(t) ==
    /\ pc[t] = "create"
    /\ created' = created + 1
    /\ f' = [f EXCEPT ![t] = created + 1]
    /\ pc' = [pc EXCEPT ![t] = "recheck"]
    /\ UNCHANGED <<ffuncs, ret, destroyed, installs>>

\* if (!ffuncs) ... else ...
FuncsRecheck(t) ==
    /\ pc[t] = "recheck"
    /\ pc' = [pc EXCEPT ![t] = IF ffuncs = 0 THEN "assign" ELSE "destroy"]
    /\ UNCHANGED <<ffuncs, f, ret, created, destroyed, installs>>

\* ffuncs = f;
FuncsAssign(t) ==
    /\ pc[t] = "assign"
    /\ ffuncs' = f[t]
    /\ installs' = Append(installs, f[t])
    /\ pc' = [pc EXCEPT ![t] = "return"]
    /\ UNCHANGED <<f, ret, created, destroyed>>

\* hb_font_funcs_destroy (f); goto retry;
FuncsDestroy(t) ==
    /\ pc[t] = "destroy"
    /\ destroyed' = destroyed \cup {f[t]}
    /\ pc' = [pc EXCEPT ![t] = "check"]
    /\ UNCHANGED <<ffuncs, f, ret, created, installs>>

\* return ffuncs;
FuncsReturn(t) ==
    /\ pc[t] = "return"
    /\ ret' = [ret EXCEPT ![t] = ffuncs]
    /\ pc' = [pc EXCEPT ![t] = "done"]
    /\ UNCHANGED <<ffuncs, f, created, destroyed, installs>>

\* A thread that has returned calls again (a further session is constructed).
FuncsCallAgain(t) ==
    /\ pc[t] = "done"
    /\ pc' = [pc EXCEPT ![t] = "check"]
    /\ ret' = [ret EXCEPT ![t] = 0]
    /\ UNCHANGED <<ffuncs, f, created, destroyed, installs>>

(***************************************************************************)
(* Specifications.                                                          *)
(***************************************************************************)
InitSession ==
    /\ phase = "none"
    /\ fHbFont = "NULL"
    /\ fHbBuffer = "NULL"
    /\ fTypoFlags = 0
    /\ x = F0
    /\ y = F0
    /\ buffer = hb_buffer_create
    /\ font = NoFont
    /\ acquired = <<>>
    /\ released = <<>>
    /\ shaped = NoShaped
    /\ last = Last("none", LE_NO_ERROR, LE_NO_ERROR, 0, <<>>, 0)

InitFuncs ==
    /\ ffuncs = 0
    /\ pc = [t \in Threads |-> "check"]
    /\ f = [t \in Threads |-> 0]
    /\ ret = [t \in Threads |-> 0]
    /\ created = 0
    /\ destroyed = {}
    /\ installs = <<>>

InitAux ==
    /\ conv = NoConv
    /\ cb = NoCall
    /\ twin = NoTwin
    /\ fresh = NoFresh

Init == InitSession /\ InitFuncs /\ probe = NoProbe /\ InitAux

Next ==
    \/ LayoutEngineFactoryFlags
    \/ LayoutEngineFactoryDefault
    \/ Construct
    \/ Destroy
    \/ LayoutChars
    \/ Reset
    \/ GetGlyphCount
    \/ GetCharIndicesBase
    \/ GetCharIndices
    \/ GetGlyphsExtra
    \/ GetGlyphs
    \/ GetGlyphPositions
    \/ GetGlyphPosition

Spec == Init /\ [][Next]_vars

NextFuncs ==
    \E t \in Threads :
      /\ \/ FuncsCheck(t)
         \/ FuncsCreate(t)
         \/ FuncsRecheck(t)
         \/ FuncsAssign(t)
         \/ FuncsDestroy(t)
         \/ FuncsReturn(t)
         \/ FuncsCallAgain(t)
      /\ UNCHANGED <<sessionVars, auxVars>>

SpecFuncs == Init /\ [][NextFuncs]_vars

InitArgs ==
    /\ InitSession
    /\ InitFuncs
    /\ InitAux
    /\ \E hasChars \in BOOLEAN, offset \in Int32Samples, count \in Int32Samples,
          max \in Int32Samples :
         \E wraps \in WrapOutcomes(offset, count) :
           probe = [NoProbe EXCEPT !.hasChars = hasChars, !.offset = offset,
                                   !.count = count, !.max = max, !.wraps = wraps]

NextArgs == ProbeCall

SpecArgs == InitArgs /\ [][NextArgs]_vars

InitFloat ==
    /\ InitSession
    /\ InitFuncs
    /\ probe = NoProbe
    /\ cb = NoCall
    /\ twin = NoTwin
    /\ fresh = NoFresh
    /\ \E v \in FixedSamples : conv = [NoConv EXCEPT !.v = v]

NextFloat == RoundTrip

SpecFloat == InitFloat /\ [][NextFloat]_vars

\* A session as layoutEngineFactory has just returned it.
InitLive ==
    \E scriptCode \in ScriptCodes, garbage \in GarbagePairs :
      LET o == Constructor(scriptCode, 3, LE_NO_ERROR, TRUE, TRUE, garbage)
      IN  /\ phase = "live"
          /\ fHbFont = o.fHbFont
          /\ fHbBuffer = o.fHbBuffer
          /\ fTypoFlags = o.fTypoFlags
          /\ x = o.x
          /\ y = o.y
          /\ buffer = o.buffer
          /\ font = o.font
          /\ acquired = Acquired(o)
          /\ released = <<>>
          /\ shaped = NoShaped
          /\ last = Last("layoutEngineFactoryDefault", LE_NO_ERROR, LE_NO_ERROR, 1, <<>>, 0)

InitFresh == InitLive /\ InitFuncs /\ probe = NoProbe /\ InitAux

NextFresh ==
    \/ FreshLayoutChars
    \/ FreshReset
    \/ FreshRead

SpecFresh == InitFresh /\ [][NextFresh]_vars

\* Two sessions as the factory has just returned them, one constructed with
\* typoFlags 3 (kerning and ligatures), the other with typoFlags 0.
InitTwins ==
    /\ InitLive
    /\ InitFuncs
    /\ probe = NoProbe
    /\ conv = NoConv
    /\ cb = NoCall
    /\ fresh = NoFresh
    /\ \E scriptCode \in ScriptCodes, garbage \in GarbagePairs :
         LET o == Constructor(scriptCode, 0, LE_NO_ERROR, TRUE, TRUE, garbage)
         IN  twin = [live |-> TRUE, fTypoFlags |-> o.fTypoFlags, x |-> o.x, y |-> o.y,
                     buffer |-> o.buffer, ret |-> 1, out |-> <<>>]

NextTwins ==
    \/ TwinsLayoutChars
    \/ TwinsReset
    \/ TwinsGlyphCount
    \/ TwinsGlyphs
    \/ TwinsCharIndices
    \/ TwinsPositions

SpecTwins == InitTwins /\ [][NextTwins]_vars

InitGlyph ==
    /\ InitSession
    /\ InitFuncs
    /\ probe = NoProbe
    /\ conv = NoConv
    /\ twin = NoTwin
    /\ fresh = NoFresh
    /\ \E unicode \in UnicodeSamples, variation_selector \in SelectorSamples :
         cb = [NoCall EXCEPT !.unicode = unicode,
                             !.variation_selector = variation_selector]

NextGlyph == GlyphCall

SpecGlyph == InitGlyph /\ [][NextGlyph]_vars

(***************************************************************************)
(* The claims.                                                              *)
(***************************************************************************)
\* The arguments the argument check is meant to refuse, the sum taken as
\* the mathematical sum.
ClaimIllegal(hasChars, offset, count, max) ==
    \/ ~hasChars
    \/ offset < 0
    \/ count < 0
    \/ max < 0
    \/ offset >= max
    \/ TrueSumGreater(offset, count, max)

\* C1: a layoutChars call entered with a success status and with chars NULL,
\* a negative offset, count or max, offset >= max or offset + count > max
\* returns 0, sets LE_ILLEGAL_ARGUMENT_ERROR and leaves the session as it
\* was: a call that is accepted had none of these, and a call that is
\* refused returns 0 with that status and changes nothing.
C1_IllegalCallRejectedUnchanged ==
    [][(last'.op = "layoutChars" /\ LE_SUCCESS(last'.sIn)) =>
         IF LE_SUCCESS(last'.sOut)
         THEN ~ClaimIllegal(TRUE, shaped'.offset, shaped'.count, shaped'.max)
         ELSE /\ last'.ret = 0
              /\ last'.sOut = LE_ILLEGAL_ARGUMENT_ERROR
              /\ UNCHANGED <<phase, fHbFont, fHbBuffer, fTypoFlags, x, y, buffer, font,
                             acquired, released, shaped>>]_vars

\* C2 as stated: after an accepted layoutChars with offset > 0, the values
\* getCharIndices writes with indexBase 0 are indices into the caller's
\* array: each lies in [offset, offset + count).
C2_ClustersAbsolute ==
    (/\ last.op = "getCharIndicesBase"
     /\ LE_SUCCESS(last.sIn)
     /\ last.arg = 0
     /\ shaped.any
     /\ shaped.offset > 0)
      => \A i \in 1..Len(last.out) :
           /\ last.out[i] >= shaped.offset
           /\ last.out[i] - shaped.offset < shaped.count

\* C2 as amended: after an accepted layoutChars with offset > 0, the values
\* getCharIndices writes are indices relative to the start of the shaped
\* span plus indexBase: each lies in [indexBase, indexBase + count), and
\* with indexBase 0 the first character of the span has index 0.
C2_ClustersRelativeToSpan ==
    (/\ last.op \in {"getCharIndicesBase", "getCharIndices"}
     /\ LE_SUCCESS(last.sIn)
     /\ shaped.any
     /\ shaped.offset > 0)
      => /\ Len(last.out) = Len(buffer.info)
         /\ \A i \in 1..Len(last.out) :
              /\ last.out[i] >= last.arg
              /\ last.out[i] - last.arg < shaped.count
              /\ last.out[i] = buffer.info[i].cluster + last.arg
         /\ (Len(last.out) > 0 /\ buffer.direction = HB_DIRECTION_LTR)
              => last.out[1] = last.arg

C2_Witness ==
    /\ last.op = "getCharIndicesBase"
    /\ LE_SUCCESS(last.sIn)
    /\ last.arg = 0
    /\ shaped.any
    /\ shaped.offset = 1
    /\ shaped.count = 2
    /\ shaped.max = MaxLen
    /\ buffer.direction = HB_DIRECTION_LTR
    /\ last.out = <<0, 0, 1>>

\* C3: whatever the interleaving, one table at most is ever assigned to
\* ffuncs, every thread that has returned holds that table, and once all
\* threads have returned every other table made has been destroyed.
C3_OneTableInstalled ==
    /\ Len(installs) <= 1
    /\ \A t \in Threads : pc[t] = "done" => (installs # <<>> /\ ret[t] = installs[1])
    /\ (\A t \in Threads : pc[t] = "done")
         => \A tbl \in 1..created : tbl = ffuncs \/ tbl \in destroyed

\* C4: after an accepted layoutChars the buffer flags are exactly BOT iff
\* offset = 0 and EOT iff offset + count = max, whatever they were before.
C4_BoundaryFlags ==
    shaped.any =>
      buffer.flags =
        {fl \in {HB_BUFFER_FLAG_BOT, HB_BUFFER_FLAG_EOT} :
           \/ (fl = HB_BUFFER_FLAG_BOT /\ shaped.offset = 0)
           \/ (fl = HB_BUFFER_FLAG_EOT
                 /\ TrueSumEquals(shaped.offset, shaped.count, shaped.max))}

\* An interior span sets neither flag; a span ending the text and not
\* starting it sets EOT alone.
C4_Witness ==
    /\ shaped.any
    /\ last.op = "layoutChars"
    /\ shaped.offset = 1
    /\ shaped.count = 1
    /\ shaped.max = 3
    /\ buffer.flags = {}

RECURSIVE SumAdvance(_, _, _)
SumAdvance(pos, k, vertical) ==
    IF k = 0 THEN 0
    ELSE SumAdvance(pos, k - 1, vertical)
           + (IF vertical THEN pos[k].y_advance ELSE pos[k].x_advance)

\* C5: after an accepted layoutChars with origin (x0, y0) that left n glyphs,
\* getGlyphPositions writes 2n+2 values; in units of 1/256, positions[2i] is
\* x0 plus the x advances of glyphs 0..i-1 plus the x offset of glyph i,
\* positions[2i+1] the same in y, and the trailing pair is the origin plus
\* all advances and no offset.
C5_Positions ==
    (/\ last.op = "getGlyphPositions"
     /\ LE_SUCCESS(last.sIn)
     /\ shaped.any)
      => LET pos == buffer.pos
             n == Len(buffer.info)
         IN  /\ Len(pos) = n
             /\ Len(last.out) = 2 * n + 2
             /\ \A i \in 0..(n - 1) :
                  /\ Q8(last.out[2 * i + 1])
                       = Q8(shaped.x) + SumAdvance(pos, i, FALSE) + pos[i + 1].x_offset
                  /\ Q8(last.out[2 * i + 2])
                       = Q8(shaped.y) + SumAdvance(pos, i, TRUE) + pos[i + 1].y_offset
             /\ Q8(last.out[2 * n + 1]) = Q8(shaped.x) + SumAdvance(pos, n, FALSE)
             /\ Q8(last.out[2 * n + 2]) = Q8(shaped.y) + SumAdvance(pos, n, TRUE)

\* Positions of a run of three glyphs whose second glyph has an offset in
\* x and in y, from a pen that is not the zero point.
C5_Witness ==
    /\ last.op = "getGlyphPositions"
    /\ LE_SUCCESS(last.sIn)
    /\ shaped.any
    /\ shaped.x # F0
    /\ shaped.y # F0
    /\ Len(buffer.pos) = 3
    /\ buffer.pos[1].x_advance # 0
    /\ buffer.pos[2].x_offset # 0
    /\ buffer.pos[2].y_offset # 0
    /\ Len(last.out) = 8

\* C6: the pen origin of a live session is (0, 0) as long as no layoutChars
\* call has been accepted since construction or the last reset, and after
\* that the (x, y) of the latest accepted call.
C6_PenOrigin ==
    phase = "live" =>
      IF shaped.any THEN x = shaped.x /\ y = shaped.y ELSE x = F0 /\ y = F0

\* C7: with chars not NULL, a call is accepted only if 0 <= offset < max,
\* count >= 0 and the mathematical sum offset + count is at most max; a call
\* whose mathematical sum exceeds max returns 0 with
\* LE_ILLEGAL_ARGUMENT_ERROR.
C7_TrueSumDecides ==
    (probe.called /\ probe.hasChars) =>
      /\ LE_SUCCESS(probe.success) =>
           /\ 0 <= probe.offset
           /\ probe.offset < probe.max
           /\ probe.count >= 0
           /\ ~TrueSumGreater(probe.offset, probe.count, probe.max)
      /\ TrueSumGreater(probe.offset, probe.count, probe.max) =>
           /\ probe.success = LE_ILLEGAL_ARGUMENT_ERROR
           /\ probe.ret = 0
           /\ ~probe.changed

\* C8: an operation entered with a failure status leaves the status as it
\* is, writes nothing, returns 0 (NULL for the factories) and changes no
\* state; the constructor creates no engine object and binds nothing.
C8_FailedStatusNoWork ==
    [][LE_FAILURE(last'.sIn) =>
         /\ last'.sOut = last'.sIn
         /\ last'.out = <<>>
         /\ last'.ret = 0
         /\ IF last'.op = "LayoutEngine"
            THEN /\ fHbFont' = "NULL"
                 /\ fHbBuffer' = "NULL"
                 /\ buffer' = hb_buffer_create
                 /\ font' = NoFont
                 /\ acquired' = <<>>
                 /\ released' = <<>>
            ELSE UNCHANGED <<phase, fHbFont, fHbBuffer, fTypoFlags, x, y, buffer, font,
                             acquired, released, shaped>>]_vars

\* layoutChars entered with a failure other than the one it sets itself, on
\* a session that holds a result.
C8_Witness ==
    /\ last.op = "layoutChars"
    /\ last.sIn = LE_MEMORY_ALLOCATION_ERROR
    /\ last.sOut = LE_MEMORY_ALLOCATION_ERROR
    /\ last.ret = 0
    /\ Len(buffer.info) > 0
    /\ shaped.any

\* C9: reset leaves no glyph and the pen at (0, 0), a second reset changes
\* nothing more, and the handles, the script, the font bindings and the
\* count of releases are as before.
C9_Reset ==
    [][last'.op = "reset" =>
         LET after == [x |-> x', y |-> y', buffer |-> buffer']
         IN  /\ getGlyphCount(buffer') = 0
             /\ buffer'.pos = <<>>
             /\ x' = F0
             /\ y' = F0
             /\ reset(after) = after
             /\ phase' = phase
             /\ fHbFont' = fHbFont
             /\ fHbBuffer' = fHbBuffer
             /\ buffer'.script = buffer.script
             /\ font' = font
             /\ acquired' = acquired
             /\ released' = released]_vars

\* A reset of a session that had shaped a whole text.
C9_Witness ==
    /\ last.op = "reset"
    /\ phase = "live"
    /\ buffer.flags = {HB_BUFFER_FLAG_BOT, HB_BUFFER_FLAG_EOT}
    /\ buffer.direction = HB_DIRECTION_RTL
    /\ Len(buffer.info) = 0
    /\ x = F0
    /\ y = F0
    /\ released = <<>>

Occurrences(seq, h) == Cardinality({i \in 1..Len(seq) : seq[i] = h})

\* C10: a factory returns an object iff the status is a success on return;
\* the object returned holds a real buffer and a real font with the
\* callbacks bound; when no object is returned from a call entered with a
\* success status, the status is LE_MEMORY_ALLOCATION_ERROR, no object is
\* left and every handle the constructor acquired has been released once.
C10_Factory ==
    last.op \in {"layoutEngineFactory", "layoutEngineFactoryDefault"} =>
      /\ (last.ret = 1) <=> LE_SUCCESS(last.sOut)
      /\ (last.ret = 1) <=> (phase = "live")
      /\ last.ret = 1 =>
           /\ fHbBuffer = "real"
           /\ fHbFont = "real"
           /\ font.funcs = "icu_le_hb_font_funcs"
           /\ released = <<>>
      /\ (last.ret = 0 /\ LE_SUCCESS(last.sIn)) =>
           /\ last.sOut = LE_MEMORY_ALLOCATION_ERROR
           /\ phase = "none"
           /\ \A h \in {"font", "buffer"} :
                Occurrences(released, h) = Occurrences(acquired, h)
      /\ (last.ret = 0 /\ LE_FAILURE(last.sIn)) => last.sOut = last.sIn

\* The font could not be created: the object that held the buffer was
\* deleted and NULL returned.
C10_Witness ==
    /\ last.op = "layoutEngineFactoryDefault"
    /\ last.sIn = LE_NO_ERROR
    /\ last.ret = 0
    /\ last.sOut = LE_MEMORY_ALLOCATION_ERROR
    /\ phase = "none"
    /\ acquired = <<"buffer">>
    /\ released = <<"buffer">>

\* C11: a handle is released only if it was acquired and at most once, the
\* font before the buffer; once the object is gone every acquired handle has
\* been released; a constructor that fails leaves the font unbound and sets
\* LE_MEMORY_ALLOCATION_ERROR.
C11_HandlesReleasedOnce ==
    /\ \A h \in {"font", "buffer"} :
         /\ Occurrences(acquired, h) <= 1
         /\ Occurrences(released, h) <= Occurrences(acquired, h)
    /\ \A i, j \in 1..Len(released) :
         (released[i] = "buffer" /\ released[j] = "font") => j < i
    /\ phase = "none" =>
         \A h \in {"font", "buffer"} : Occurrences(released, h) = Occurrences(acquired, h)
    /\ phase # "none" => released = <<>>
    /\ ("font" \in {acquired[i] : i \in 1..Len(acquired)})
         => ("buffer" \in {acquired[i] : i \in 1..Len(acquired)})
    /\ phase = "failed" =>
         /\ font = NoFont
         /\ fHbFont # "real"
         /\ acquired = (IF fHbBuffer = "real" THEN <<"buffer">> ELSE <<>>)
    /\ (last.op = "LayoutEngine" /\ LE_SUCCESS(last.sIn) /\ phase = "failed")
         => last.sOut = LE_MEMORY_ALLOCATION_ERROR
    /\ (last.op = "LayoutEngine" /\ phase = "live") =>
         /\ LE_SUCCESS(last.sOut)
         /\ font.funcs = "icu_le_hb_font_funcs"
         /\ acquired = <<"buffer", "font">>

\* A session whose font could not be created has been destroyed: the buffer
\* alone was acquired and the buffer alone released.
C11_Witness ==
    /\ last.op = "~LayoutEngine"
    /\ phase = "none"
    /\ acquired = <<"buffer">>
    /\ released = <<"buffer">>

\* The destruction of a complete session.
C11_WitnessComplete ==
    /\ last.op = "~LayoutEngine"
    /\ acquired = <<"buffer", "font">>
    /\ released = <<"font", "buffer">>

\* C12: for 0 <= i < n getGlyphPosition (i) returns the pair that
\* getGlyphPositions writes at 2i, 2i+1: the origin, plus the advances of
\* the glyphs before i, plus the offset of glyph i.
C12_PositionMatchesPositions ==
    (last.op = "getGlyphPosition" /\ LE_SUCCESS(last.sIn) /\ shaped.any
       /\ 0 <= last.arg /\ last.arg < getGlyphCount(buffer)) =>
      LET i == last.arg
          all == getGlyphPositions(Self, LE_NO_ERROR)
          pos == buffer.pos
      IN  /\ last.out = <<all[2 * i + 1], all[2 * i + 2]>>
          /\ Q8(last.out[1]) = Q8(x) + SumAdvance(pos, i, FALSE) + pos[i + 1].x_offset
          /\ Q8(last.out[2]) = Q8(y) + SumAdvance(pos, i, TRUE) + pos[i + 1].y_offset

\* The position of the last of two glyphs, behind a glyph that advances in
\* x and in y, from a pen that is not the zero point.
C12_Witness ==
    /\ last.op = "getGlyphPosition"
    /\ LE_SUCCESS(last.sIn)
    /\ shaped.any
    /\ x # F0
    /\ Len(buffer.pos) = 2
    /\ last.arg = 1
    /\ buffer.pos[1].x_advance # 0
    /\ buffer.pos[1].y_advance # 0
    /\ buffer.pos[2].x_advance # 0

\* C14 as stated: after an accepted layoutChars the number of glyph records
\* is at most count, the number of characters fed as items.
C14_GlyphCountAtMostCount ==
    shaped.any => getGlyphCount(buffer) <= shaped.count

\* The characters of chars[0, offset), nearest first, as the engine keeps
\* them, and those of chars[offset+count, max).
ContextBefore(chars, offset) ==
    [k \in 1..Min(offset, CONTEXT_LENGTH) |-> chars[offset - k + 1]]
ContextAfter(chars, offset, count, max) ==
    IF TrueSumGreater(offset, count, max) THEN <<>>
    ELSE [k \in 1..Min(max - (offset + count), CONTEXT_LENGTH) |->
            chars[offset + count + k]]

\* C14, amended: after an accepted layoutChars every glyph record stems
\* from one of the count characters of the span (its cluster is in
\* [0, count)), the characters before and after the span are context only,
\* and the number of records is what layoutChars returned and getGlyphCount
\* reports, one position record for each glyph record.
C14_RecordsStemFromSpan ==
    shaped.any =>
      /\ \A i \in 1..Len(buffer.info) :
           0 <= buffer.info[i].cluster /\ buffer.info[i].cluster < shaped.count
      /\ Len(buffer.pos) = Len(buffer.info)
      /\ buffer.pre = ContextBefore(ProbeText, shaped.offset)
      /\ buffer.post = ContextAfter(ProbeText, shaped.offset, shaped.count, shaped.max)
      /\ (last.op = "layoutChars" /\ LE_SUCCESS(last.sOut)) =>
           last.ret = getGlyphCount(buffer)
      /\ last.op = "getGlyphCount" => last.ret = Len(buffer.info)

\* One character with text on both sides, shaped into two glyph records.
C14_Witness ==
    /\ shaped.any
    /\ last.op = "layoutChars"
    /\ shaped.offset = 1
    /\ shaped.count = 1
    /\ shaped.max = 3
    /\ last.ret = 2
    /\ getGlyphCount(buffer) = 2
    /\ buffer.pre # <<>>
    /\ buffer.post # <<>>

ExtractOps ==
    {"getGlyphCount", "getCharIndicesBase", "getCharIndices", "getGlyphsExtra",
     "getGlyphs", "getGlyphPositions", "getGlyphPosition"}

\* C17: an extraction call changes neither the session nor the status, and
\* what it writes is determined by the unchanged session and its argument:
\* cluster + indexBase, glyph id | extraBits, for each of the glyphCount
\* records, 2n+2 positions, one pair for a glyph index in [0, n).
C17_ExtractionReadOnly ==
    [][last'.op \in ExtractOps =>
         LET n == Len(buffer.info)
             op == last'.op
         IN  /\ UNCHANGED <<phase, fHbFont, fHbBuffer, fTypoFlags, x, y, buffer, font,
                            acquired, released, shaped>>
             /\ last'.sOut = last'.sIn
             /\ LE_SUCCESS(last'.sIn) =>
                  /\ op = "getGlyphCount" => last'.ret = n /\ last'.out = <<>>
                  /\ op = "getCharIndicesBase" =>
                       last'.out = [i \in 1..n |-> buffer.info[i].cluster + last'.arg]
                  /\ op = "getCharIndices" =>
                       last'.out = [i \in 1..n |-> buffer.info[i].cluster]
                  /\ op = "getGlyphsExtra" =>
                       last'.out = [i \in 1..n |-> BitOr(buffer.info[i].codepoint, last'.arg)]
                  /\ op = "getGlyphs" =>
                       last'.out = [i \in 1..n |-> buffer.info[i].codepoint]
                  /\ op = "getGlyphPositions" =>
                       /\ Len(last'.out) = 2 * n + 2
                       /\ last'.out = getGlyphPositions(Self, LE_NO_ERROR)
                  /\ (op = "getGlyphPosition" /\ 0 <= last'.arg /\ last'.arg < n) =>
                       /\ Len(last'.out) = 2
                       /\ \A junkPos \in JunkPositions :
                            last'.out = getGlyphPosition(Self, last'.arg, LE_NO_ERROR, junkPos)]_vars

\* Char indices with indexBase 1 of a result of three glyph records.
C17_Witness ==
    /\ last.op = "getCharIndicesBase"
    /\ LE_SUCCESS(last.sIn)
    /\ last.sOut = last.sIn
    /\ last.arg = 1
    /\ shaped.any
    /\ Len(buffer.info) = 3
    /\ last.out = [i \in 1..3 |-> buffer.info[i].cluster + 1]

\* C19: getGlyphPosition entered with a success status reads position
\* records at indices in [0, glyphCount) only, and none at all for a
\* negative glyphIndex.
C19_ReadsInsideRecords ==
    (last.op = "getGlyphPosition" /\ LE_SUCCESS(last.sIn)) =>
      LET n == getGlyphCount(buffer)
          reads == getGlyphPositionReads(n, last.arg)
      IN  /\ reads \subseteq 0..(n - 1)
          /\ last.arg < 0 => reads = {}

\* back is within d of v (no sum leaves the 32-bit range).
Within(back, v, d) ==
    /\ (v >= INT32_MIN + d) => back >= v - d
    /\ (v <= INT32_MAX - d) => back <= v + d

\* C15 as stated: from_float (to_float (v)) is within one unit of v for
\* every 32-bit v.
C15_RoundTripWithinOne ==
    conv.called => Within(conv.back, conv.v, 1)

\* C15, amended: the round trip is exact for |v| <= 2^24, within one unit
\* for |v| <= 2^25, and in general within half the spacing of the floats at
\* v, as long as v does not round to 2^31, where the conversion back is
\* undefined.
C15_RoundTripError ==
    (conv.called /\ conv.v # INT32_MIN /\ FitsInt32(to_float(conv.v))) =>
      LET a == Abs(conv.v)
      IN  /\ a <= 2^FloatSigBits => conv.back = conv.v
          /\ a <= 2^(FloatSigBits + 1) => Within(conv.back, conv.v, 1)
          /\ Within(conv.back, conv.v, Ulp(a, 1) \div 2)
          /\ conv.f.e < 31 - 8 => Q8(conv.f) = conv.back

\* A value three units above the nearest float.
C15_Witness ==
    /\ conv.called
    /\ conv.v = 2^26 + 3
    /\ conv.back = 2^26

\* C18: the callback stores mapCharToGlyph (unicode), whatever the
\* variation selector, and returns true, also when the glyph stored is 0.
C18_GlyphCallback ==
    cb.called =>
      /\ cb.glyph = mapCharToGlyph(cb.unicode)
      /\ cb.glyph = icu_le_hb_font_get_glyph(cb.unicode, 0).glyph
      /\ cb.ret = TRUE

\* A character the font lacks, looked up with a variation selector.
C18_Witness ==
    /\ cb.called
    /\ cb.variation_selector # 0
    /\ mapCharToGlyph(cb.unicode) = 0
    /\ cb.glyph = 0
    /\ cb.ret = TRUE

\* C13: what an accepted layoutChars leaves (records, count, direction,
\* flags, contexts, pen) and returns is what a newly constructed session
\* leaves and returns for the same call, whatever calls came before, and it
\* stays so until the next accepted call or reset.
C13_ResultIndependentOfHistory ==
    (fresh.valid /\ shaped.any) =>
      /\ x = fresh.self.x
      /\ y = fresh.self.y
      /\ buffer = fresh.self.buffer
      /\ fresh.got = fresh.ret
      /\ getGlyphCount(buffer) = fresh.ret

\* An accepted call that arrived when the session held an earlier result
\* and had just rejected a call, and that left a result with the other
\* direction.
C13_Witness ==
    /\ fresh.valid
    /\ shaped.any
    /\ last.op = "layoutChars"
    /\ LE_SUCCESS(last.sOut)
    /\ fresh.before.result
    /\ fresh.before.rejected
    /\ last.ret > 0
    /\ buffer.direction = HB_DIRECTION_RTL


\* C16: two sessions that differ in typoFlags only, put through the same
\* calls, hold the same buffer at every step, and every call returns and
\* writes the same in both.
C16_TwinsAgree ==
    (twin.live /\ twin.fTypoFlags # fTypoFlags) =>
      /\ buffer = twin.buffer
      /\ last.ret = twin.ret
      /\ last.out = twin.out

=============================================================================
